---- MODULE Spec2Model ----
(***************************************************************************)
(* ComponentMetrics (src/component-metrics.js): a tracker of UI events.    *)
(* Every event object handed to registerEvent becomes a heap object; the   *)
(* tracker's fields hold references (heap indices) to these objects, as    *)
(* the JavaScript fields hold object references.                           *)
(***************************************************************************)
EXTENDS Integers, Sequences, FiniteSets, TLC

\* ---------------------------------------------------------------- bounds
\* Number of successful registrations explored.
MaxEvents == 3
\* Number of successful registrations explored where the clock advances.
MaxTimedEvents == 2
\* Number of successful registrations explored where callbacks are
\* registered.
MaxDeliveredEvents == 2
\* Largest value of the millisecond clock explored.
MaxTime == 2
\* Number of finalized-events callbacks explored.
MaxCallbacks == 2

\* ---------------------------------------------------------------- values
\* JavaScript's undefined (an absent property reads as undefined).
Undefined == "undefined"
\* JavaScript's null reference; heap references are 1, 2, ...
Null == 0

FINALIZE_IMMEDIATE == "immediate"
FINALIZE_NEXT_EVENT == "next_event"
FINALIZE_PAGE_CHANGE == "page_change"
FINALIZE_NEXT_EVENT_SAME_COMPONENT == "next_event_same_component"

FINALIZATION_MODES ==
  << FINALIZE_IMMEDIATE, FINALIZE_NEXT_EVENT, FINALIZE_PAGE_CHANGE,
     FINALIZE_NEXT_EVENT_SAME_COMPONENT >>

_builtinProps ==
  << "represented_object_type", "represented_object_id", "interaction_meaning",
     "interaction_gesture", "interaction_duration", "page", "component",
     "_finalization_mode" >>

\* Array.prototype.indexOf, 0-based, -1 when absent.
indexOf(arr, v) ==
  IF \E i \in 1..Len(arr) : arr[i] = v
  THEN (CHOOSE i \in 1..Len(arr) : arr[i] = v /\ \A j \in 1..(i-1) : arr[j] # v) - 1
  ELSE -1

\* ------------------------------------------------ inputs of the operations
Pages == {"home", "feed"}
Components == {"card", "button"}
\* config.finalization_mode as callers pass it: absent, the four modes, and
\* "next_page", the name the comment above registerEvent uses for a mode.
ConfigModes ==
  {Undefined, FINALIZE_IMMEDIATE, FINALIZE_NEXT_EVENT, FINALIZE_PAGE_CHANGE,
   FINALIZE_NEXT_EVENT_SAME_COMPONENT, "next_page"}
AcceptedConfigModes == ConfigModes \ {"next_page"}
\* Values of a duration property supplied by the caller.
SuppliedDurations == {0, 2}
\* The event objects callers pass: fresh object literals with page and
\* component, and possibly one more property.  keys is the object's set of
\* own property names; a property outside keys reads as undefined.
PlainEvents ==
  { [keys |-> {"page", "component"}, page |-> p, component |-> c, duration |-> 0] :
      p \in Pages, c \in Components }
ColourEvents ==
  { [keys |-> {"page", "component", "colour"}, page |-> p, component |-> c,
     duration |-> 0] :
      p \in Pages, c \in Components }
DurationEvents ==
  { [keys |-> {"page", "component", "duration"}, page |-> p, component |-> c,
     duration |-> d] :
      p \in Pages, c \in Components, d \in SuppliedDurations }
RawEvents == PlainEvents \cup ColourEvents \cup DurationEvents
\* A finalized-events callback either returns or throws when invoked.
CallbackKinds == {"returns", "throws"}
\* The config objects the constructor is given: object literals with a
\* valid_props array, and one without the property.  keys is the object's
\* set of own property names.
Config(valid_props) == [keys |-> {"valid_props"}, valid_props |-> valid_props]
Configs ==
  { Config(<< "user_id" >>), Config(<< "user_id", "duration" >>),
    [keys |-> {}, valid_props |-> Undefined] }

\* ---------------------------------------------------------------- state
VARIABLES
  _validProps,               \* this._validProps
  eventCount,                \* this.eventCount
  lastEvent,                 \* this.lastEvent (reference or Null)
  lastPage,                  \* this.lastPage
  lastComponent,             \* this.lastComponent
  unfinalizedEvents,         \* this.unfinalizedEvents: _event_id -> reference
  finalizedEvents,           \* this.finalizedEvents: array of references
  events,                    \* this.events: [pages: page -> component -> slot]
  finalizedEventsCallbacks,  \* this.finalizedEventsCallbacks
  objects,                   \* the heap: the event objects, by reference
  clock,                     \* the last value +new Date() returned
  outcome                    \* what the last call did: thrown, returned, delivered

vars ==
  << _validProps, eventCount, lastEvent, lastPage, lastComponent,
     unfinalizedEvents, finalizedEvents, events, finalizedEventsCallbacks,
     objects, clock, outcome >>

\* The tracker instance as one value, for the methods below to transform.
This ==
  [ _validProps |-> _validProps, eventCount |-> eventCount,
    lastEvent |-> lastEvent, lastPage |-> lastPage,
    lastComponent |-> lastComponent, unfinalizedEvents |-> unfinalizedEvents,
    finalizedEvents |-> finalizedEvents, events |-> events,
    finalizedEventsCallbacks |-> finalizedEventsCallbacks,
    objects |-> objects ]

\* ------------------------------------------- objects used as ordered maps
\* A JavaScript object used as a map with string keys is a sequence of
\* [key, value] entries in insertion order (the order for-in enumerates).
Has(m, k) == \E i \in 1..Len(m) : m[i].key = k
IndexOfKey(m, k) == CHOOSE i \in 1..Len(m) : m[i].key = k
Get(m, k) == m[IndexOfKey(m, k)].value
Put(m, k, v) ==
  IF Has(m, k) THEN [m EXCEPT ![IndexOfKey(m, k)].value = v]
  ELSE Append(m, [key |-> k, value |-> v])

\* this.events.pages[page] && this.events.pages[page][component]
HasSlot(self, page, component) ==
  /\ Has(self.events.pages, page)
  /\ Has(Get(self.events.pages, page), component)
Slot(self, page, component) == Get(Get(self.events.pages, page), component)
SetSlot(self, page, component, slot) ==
  [self EXCEPT !.events.pages =
     Put(@, page, Put(Get(self.events.pages, page), component, slot))]

\* ---------------------------------------------------------------- methods
\* What a call throws: nothing when it returns.
Nothing == << >>

\* The keys of event that are neither built in nor in valid_props.
invalidKeys(self, event) ==
  { key \in event.keys :
      -1 = indexOf(_builtinProps, key) /\ -1 = indexOf(self._validProps, key) }

\* Mutant: the finalization mode is not checked.
_validateEvent_modeUnchecked(self, event) ==
  IF invalidKeys(self, event) # {}
  THEN << "Event has invalid property: ", CHOOSE key \in invalidKeys(self, event) : TRUE >>
  ELSE Nothing

\* _validateEvent(event): what it throws.
_validateEvent(self, event) ==
  IF invalidKeys(self, event) # {}
  THEN << "Event has invalid property: ", CHOOSE key \in invalidKeys(self, event) : TRUE >>
  ELSE IF indexOf(FINALIZATION_MODES, event._finalization_mode) = -1
  THEN << "Invalid finalization mode ", event._finalization_mode >>
  ELSE Nothing

\* Mutant: the event is not deleted from the flat open index.
_finalizeEvent_keepsIndexed(self, event, newEvent) ==
  LET e == self.objects[event]
      removed ==
        IF HasSlot(self, e.page, e.component)
        THEN SetSlot(self, e.page, e.component,
               [Slot(self, e.page, e.component) EXCEPT !.unfinalizedEvents =
                  SelectSeq(@, LAMBDA compevent :
                     self.objects[compevent]._event_id # e._event_id)])
        ELSE self
      finalized ==
        [e EXCEPT !.next_page = newEvent.page,
                  !.next_component = newEvent.component,
                  !._finalized = TRUE,
                  !.duration = IF "duration" \in e.keys /\ e.duration # 0
                               THEN e.duration
                               ELSE newEvent.time - e.time,
                  !.keys = @ \cup {"next_page", "next_component", "_finalized",
                                   "duration"}]
  IN [removed EXCEPT
        !.objects[event] = finalized,
        !.finalizedEvents = Append(@, event)]

\* Mutant: the duration is the event's time less the time of its cause.
_finalizeEvent_durationReversed(self, event, newEvent) ==
  LET e == self.objects[event]
      removed ==
        IF HasSlot(self, e.page, e.component)
        THEN SetSlot(self, e.page, e.component,
               [Slot(self, e.page, e.component) EXCEPT !.unfinalizedEvents =
                  SelectSeq(@, LAMBDA compevent :
                     self.objects[compevent]._event_id # e._event_id)])
        ELSE self
      finalized ==
        [e EXCEPT !.next_page = newEvent.page,
                  !.next_component = newEvent.component,
                  !._finalized = TRUE,
                  !.duration = IF "duration" \in e.keys /\ e.duration # 0
                               THEN e.duration
                               ELSE e.time - newEvent.time,
                  !.keys = @ \cup {"next_page", "next_component", "_finalized",
                                   "duration"}]
  IN [removed EXCEPT
        !.unfinalizedEvents =
           [id \in (DOMAIN self.unfinalizedEvents) \ {e._event_id} |->
              self.unfinalizedEvents[id]],
        !.objects[event] = finalized,
        !.finalizedEvents = Append(@, event)]

\* Mutant: the event is not removed from its per-(page, component) list.
_finalizeEvent_keepsListed(self, event, newEvent) ==
  LET e == self.objects[event]
      finalized ==
        [e EXCEPT !.next_page = newEvent.page,
                  !.next_component = newEvent.component,
                  !._finalized = TRUE,
                  !.duration = IF "duration" \in e.keys /\ e.duration # 0
                               THEN e.duration
                               ELSE newEvent.time - e.time,
                  !.keys = @ \cup {"next_page", "next_component", "_finalized",
                                   "duration"}]
  IN [self EXCEPT
        !.unfinalizedEvents =
           [id \in (DOMAIN self.unfinalizedEvents) \ {e._event_id} |->
              self.unfinalizedEvents[id]],
        !.objects[event] = finalized,
        !.finalizedEvents = Append(@, event)]

\* _finalizeEvent(event, newEvent): event is a reference, newEvent the
\* object whose page, component and time are read.
_finalizeEvent(self, event, newEvent) ==
  LET e == self.objects[event]
      removed ==
        IF HasSlot(self, e.page, e.component)
        THEN SetSlot(self, e.page, e.component,
               [Slot(self, e.page, e.component) EXCEPT !.unfinalizedEvents =
                  SelectSeq(@, LAMBDA compevent :
                     self.objects[compevent]._event_id # e._event_id)])
        ELSE self
      finalized ==
        [e EXCEPT !.next_page = newEvent.page,
                  !.next_component = newEvent.component,
                  !._finalized = TRUE,
                  !.duration = IF "duration" \in e.keys /\ e.duration # 0
                               THEN e.duration
                               ELSE newEvent.time - e.time,
                  !.keys = @ \cup {"next_page", "next_component", "_finalized",
                                   "duration"}]
  IN [removed EXCEPT
        !.unfinalizedEvents =
           [id \in (DOMAIN self.unfinalizedEvents) \ {e._event_id} |->
              self.unfinalizedEvents[id]],
        !.objects[event] = finalized,
        !.finalizedEvents = Append(@, event)]

\* x is a value of the flat open index of self.
InOpenIndexOf(self, x) ==
  \E id \in DOMAIN self.unfinalizedEvents : self.unfinalizedEvents[id] = x

\* .map((e) => this._finalizeEvent(e, event)) over the filtered array
RECURSIVE mapFinalizeEvent(_, _, _)
mapFinalizeEvent(self, list, event) ==
  IF list = << >> THEN self
  ELSE mapFinalizeEvent(_finalizeEvent(self, Head(list), event), Tail(list), event)

\* Mutant: the events of every component of the page, not of the one given.
_finalizeComponentEvents_wholePage(self, event, page, component, eventTypes) ==
  IF Has(self.events.pages, page)
  THEN mapFinalizeEvent(self,
         SelectSeq([x \in 1..Len(self.objects) |-> x],
                   LAMBDA x : /\ InOpenIndexOf(self, x)
                              /\ self.objects[x].page = page
                              /\ indexOf(eventTypes, self.objects[x]._finalization_mode) # -1),
         event)
  ELSE self

\* Mutant: the events of the page and component are finalized whatever
\* their mode.
_finalizeComponentEvents_anyType(self, event, page, component, eventTypes) ==
  IF HasSlot(self, page, component)
  THEN mapFinalizeEvent(self, Slot(self, page, component).unfinalizedEvents, event)
  ELSE self

\* _finalizeComponentEvents(event, page, component, eventTypes)
_finalizeComponentEvents(self, event, page, component, eventTypes) ==
  IF HasSlot(self, page, component)
  THEN mapFinalizeEvent(self,
         SelectSeq(Slot(self, page, component).unfinalizedEvents,
                   LAMBDA x : indexOf(eventTypes, self.objects[x]._finalization_mode) # -1),
         event)
  ELSE self

\* Mutant: the loop over the pages does not skip event.page.
RECURSIVE navChangeSlots_noSkip(_, _, _)
navChangeSlots_noSkip(pages, i, event) ==
  IF i > Len(pages) THEN << >>
  ELSE [j \in 1..Len(pages[i].value) |-> << pages[i].key, pages[i].value[j].key >>]
       \o navChangeSlots_noSkip(pages, i + 1, event)

\* The (page, component) pairs the two for-in loops of
\* _finalizeNavChangeEvents visit, in order: pages other than event.page.
RECURSIVE navChangeSlots(_, _, _)
navChangeSlots(pages, i, event) ==
  IF i > Len(pages) THEN << >>
  ELSE (IF pages[i].key = event.page THEN << >>
        ELSE [j \in 1..Len(pages[i].value) |-> << pages[i].key, pages[i].value[j].key >>])
       \o navChangeSlots(pages, i + 1, event)

\* Mutant: on the other pages only the page_change events are finalized.
RECURSIVE forEachNavChangeSlot_pageChangeOnly(_, _, _)
forEachNavChangeSlot_pageChangeOnly(self, slots, event) ==
  IF slots = << >> THEN self
  ELSE forEachNavChangeSlot_pageChangeOnly(
         _finalizeComponentEvents(self, event, Head(slots)[1], Head(slots)[2],
            << FINALIZE_PAGE_CHANGE >>),
         Tail(slots), event)

RECURSIVE forEachNavChangeSlot(_, _, _)
forEachNavChangeSlot(self, slots, event) ==
  IF slots = << >> THEN self
  ELSE forEachNavChangeSlot(
         _finalizeComponentEvents(self, event, Head(slots)[1], Head(slots)[2],
            << FINALIZE_NEXT_EVENT_SAME_COMPONENT, FINALIZE_PAGE_CHANGE >>),
         Tail(slots), event)

\* _finalizeNavChangeEvents(event)
_finalizeNavChangeEvents(self, event) ==
  forEachNavChangeSlot(self, navChangeSlots(self.events.pages, 1, event), event)

\* Mutant: an event that is already finalized (an immediate one) does not
\* finalize the last event.
_finalizePreviousEvents_notByFinalized(self, event) ==
  LET s1 == _finalizeNavChangeEvents(self, event)
      s2 == _finalizeComponentEvents(s1, event, event.page, event.component,
                                     << FINALIZE_NEXT_EVENT_SAME_COMPONENT >>)
  IN IF s2.lastEvent # Null /\ ~event._finalized
        /\ s2.objects[s2.lastEvent]._finalization_mode = FINALIZE_NEXT_EVENT
     THEN _finalizeEvent(s2, s2.lastEvent, event)
     ELSE s2

\* Mutant: the last event is finalized whatever its mode.
_finalizePreviousEvents_anyLastEvent(self, event) ==
  LET s1 == _finalizeNavChangeEvents(self, event)
      s2 == _finalizeComponentEvents(s1, event, event.page, event.component,
                                     << FINALIZE_NEXT_EVENT_SAME_COMPONENT >>)
  IN IF s2.lastEvent # Null
     THEN _finalizeEvent(s2, s2.lastEvent, event)
     ELSE s2

\* Mutant: the last event is not finalized.
_finalizePreviousEvents_noLastEvent(self, event) ==
  LET s1 == _finalizeNavChangeEvents(self, event)
  IN _finalizeComponentEvents(s1, event, event.page, event.component,
                              << FINALIZE_NEXT_EVENT_SAME_COMPONENT >>)

\* _finalizePreviousEvents(event)
_finalizePreviousEvents(self, event) ==
  LET s1 == _finalizeNavChangeEvents(self, event)
      s2 == _finalizeComponentEvents(s1, event, event.page, event.component,
                                     << FINALIZE_NEXT_EVENT_SAME_COMPONENT >>)
  IN IF s2.lastEvent # Null
        /\ s2.objects[s2.lastEvent]._finalization_mode = FINALIZE_NEXT_EVENT
     THEN _finalizeEvent(s2, s2.lastEvent, event)
     ELSE s2

\* Mutant: the back references are set only when the last event is not
\* finalized.
_augmentEvent_skipsFinalizedLast(self, event, now) ==
  LET base == [ keys |-> event.keys \cup {"_event_id", "time"},
                page |-> event.page, component |-> event.component,
                duration |-> event.duration,
                _finalization_mode |-> event._finalization_mode,
                _event_id |-> self.eventCount, time |-> now,
                lastEventId |-> 0, previous_page |-> Undefined,
                previous_component |-> Undefined,
                next_page |-> Undefined, next_component |-> Undefined,
                _finalized |-> FALSE ]
      augmented ==
        IF self.lastEvent # Null /\ ~self.objects[self.lastEvent]._finalized
        THEN [base EXCEPT
                !.lastEventId = self.objects[self.lastEvent]._event_id,
                !.previous_page = self.objects[self.lastEvent].page,
                !.previous_component = self.objects[self.lastEvent].component,
                !.keys = @ \cup {"lastEventId", "previous_page", "previous_component"}]
        ELSE base
  IN [self EXCEPT !.eventCount = @ + 1, !.objects = Append(@, augmented)]

\* _augmentEvent(event): the object gets its id, time and back references;
\* it is entered in the heap, and the result's last object is the event.
_augmentEvent(self, event, now) ==
  LET base == [ keys |-> event.keys \cup {"_event_id", "time"},
                page |-> event.page, component |-> event.component,
                duration |-> event.duration,
                _finalization_mode |-> event._finalization_mode,
                _event_id |-> self.eventCount, time |-> now,
                lastEventId |-> 0, previous_page |-> Undefined,
                previous_component |-> Undefined,
                next_page |-> Undefined, next_component |-> Undefined,
                _finalized |-> FALSE ]
      augmented ==
        IF self.lastEvent # Null
        THEN [base EXCEPT
                !.lastEventId = self.objects[self.lastEvent]._event_id,
                !.previous_page = self.objects[self.lastEvent].page,
                !.previous_component = self.objects[self.lastEvent].component,
                !.keys = @ \cup {"lastEventId", "previous_page", "previous_component"}]
        ELSE base
  IN [self EXCEPT !.eventCount = @ + 1, !.objects = Append(@, augmented)]

\* Mutant: immediate events are indexed as open like the others.
_storeEvent_indexImmediate(self, event) ==
  LET e == self.objects[event]
      s1 == [self EXCEPT !.lastPage = e.page, !.lastComponent = e.component]
      s2 == IF ~Has(s1.events.pages, e.page)
            THEN [s1 EXCEPT !.events.pages = Put(@, e.page, << >>)]
            ELSE s1
      s3 == IF ~Has(Get(s2.events.pages, e.page), e.component)
            THEN SetSlot(s2, e.page, e.component,
                         [unfinalizedEvents |-> << >>, lastEvent |-> Null])
            ELSE s2
      s4 == SetSlot([s3 EXCEPT !.unfinalizedEvents = (e._event_id :> event) @@ @],
                    e.page, e.component,
                    [Slot(s3, e.page, e.component) EXCEPT
                       !.unfinalizedEvents = Append(@, event),
                       !.lastEvent = event])
  IN [s4 EXCEPT !.lastEvent = event]

\* Mutant: the per-(page, component) lastEvent is set for the events that
\* are indexed as open only.
_storeEvent_lastEventOpenOnly(self, event) ==
  LET e == self.objects[event]
      s1 == [self EXCEPT !.lastPage = e.page, !.lastComponent = e.component]
      s2 == IF ~Has(s1.events.pages, e.page)
            THEN [s1 EXCEPT !.events.pages = Put(@, e.page, << >>)]
            ELSE s1
      s3 == IF ~Has(Get(s2.events.pages, e.page), e.component)
            THEN SetSlot(s2, e.page, e.component,
                         [unfinalizedEvents |-> << >>, lastEvent |-> Null])
            ELSE s2
      s4 == IF e._finalization_mode # FINALIZE_IMMEDIATE
            THEN SetSlot([s3 EXCEPT !.unfinalizedEvents =
                            (e._event_id :> event) @@ @],
                         e.page, e.component,
                         [Slot(s3, e.page, e.component) EXCEPT
                            !.unfinalizedEvents = Append(@, event),
                            !.lastEvent = event])
            ELSE s3
  IN [s4 EXCEPT !.lastEvent = event]

\* _storeEvent(event): event is a reference.
_storeEvent(self, event) ==
  LET e == self.objects[event]
      s1 == [self EXCEPT !.lastPage = e.page, !.lastComponent = e.component]
      s2 == IF ~Has(s1.events.pages, e.page)
            THEN [s1 EXCEPT !.events.pages = Put(@, e.page, << >>)]
            ELSE s1
      s3 == IF ~Has(Get(s2.events.pages, e.page), e.component)
            THEN SetSlot(s2, e.page, e.component,
                         [unfinalizedEvents |-> << >>, lastEvent |-> Null])
            ELSE s2
      s4 == IF e._finalization_mode # FINALIZE_IMMEDIATE
            THEN SetSlot([s3 EXCEPT !.unfinalizedEvents =
                            (e._event_id :> event) @@ @],
                         e.page, e.component,
                         [Slot(s3, e.page, e.component) EXCEPT
                            !.unfinalizedEvents = Append(@, event)])
            ELSE s3
      s5 == SetSlot(s4, e.page, e.component,
                    [Slot(s4, e.page, e.component) EXCEPT !.lastEvent = event])
  IN [s5 EXCEPT !.lastEvent = event]

\* The prefix of the callbacks that _flushFinalizedEvents invokes: up to and
\* including the first one that throws.
invokedCallbacks(callbacks) ==
  IF \E i \in 1..Len(callbacks) : callbacks[i] = "throws"
  THEN SubSeq(callbacks, 1,
              CHOOSE i \in 1..Len(callbacks) :
                 /\ callbacks[i] = "throws"
                 /\ \A j \in 1..(i-1) : callbacks[j] # "throws")
  ELSE callbacks

\* The object literal registerEvent passes as the cause of an immediate event.
emptyCause(now) == [page |-> "", component |-> "", _event_id |-> -1, time |-> now]

\* Mutant: the event is augmented before it is validated, so that a
\* rejected registration has taken an id.
registerEvent_augmentFirst(self, event, config, now1, now2) ==
  LET mode == IF config.finalization_mode = Undefined
              THEN FINALIZE_NEXT_EVENT ELSE config.finalization_mode
      moded == [keys |-> event.keys \cup {"_finalization_mode"},
                page |-> event.page, component |-> event.component,
                duration |-> event.duration, _finalization_mode |-> mode]
      s1 == _augmentEvent(self, moded, now1)
      ref == Len(s1.objects)
  IN IF _validateEvent(self, moded) # Nothing
     THEN [thrown |-> _validateEvent(self, moded),
           self |-> [self EXCEPT !.eventCount = s1.eventCount]]
     ELSE LET s2 == IF mode = FINALIZE_IMMEDIATE
                    THEN _finalizeEvent(s1, ref, emptyCause(now2))
                    ELSE s1
              s3 == _finalizePreviousEvents(s2, s2.objects[ref])
          IN [thrown |-> Nothing, self |-> _storeEvent(s3, ref)]

\* Mutant: an immediate event is finalized and stored without the sweep of
\* the previous events.
registerEvent_immediateSkipsSweep(self, event, config, now1, now2) ==
  LET mode == IF config.finalization_mode = Undefined
              THEN FINALIZE_NEXT_EVENT ELSE config.finalization_mode
      moded == [keys |-> event.keys \cup {"_finalization_mode"},
                page |-> event.page, component |-> event.component,
                duration |-> event.duration, _finalization_mode |-> mode]
  IN IF _validateEvent(self, moded) # Nothing
     THEN [thrown |-> _validateEvent(self, moded), self |-> self]
     ELSE LET s1 == _augmentEvent(self, moded, now1)
              ref == Len(s1.objects)
              s3 == IF mode = FINALIZE_IMMEDIATE
                    THEN _finalizeEvent(s1, ref, emptyCause(now2))
                    ELSE _finalizePreviousEvents(s1, s1.objects[ref])
          IN [thrown |-> Nothing, self |-> _storeEvent(s3, ref)]

\* registerEvent(event, config) up to its return or throw: the tracker
\* after the call and what the call threw.  now1 and now2 are the values of
\* the two +new Date() reads.
registerEvent(self, event, config, now1, now2) ==
  LET mode == IF config.finalization_mode = Undefined
              THEN FINALIZE_NEXT_EVENT ELSE config.finalization_mode
      moded == [keys |-> event.keys \cup {"_finalization_mode"},
                page |-> event.page, component |-> event.component,
                duration |-> event.duration, _finalization_mode |-> mode]
  IN IF _validateEvent(self, moded) # Nothing
     THEN [thrown |-> _validateEvent(self, moded), self |-> self]
     ELSE LET s1 == _augmentEvent(self, moded, now1)
              ref == Len(s1.objects)
              s2 == IF mode = FINALIZE_IMMEDIATE
                    THEN _finalizeEvent(s1, ref, emptyCause(now2))
                    ELSE s1
              s3 == _finalizePreviousEvents(s2, s2.objects[ref])
          IN [thrown |-> Nothing, self |-> _storeEvent(s3, ref)]

\* Mutant: the queue is returned and delivered but not reset.
_flushFinalizedEvents_keepsQueue(self) ==
  LET evs == self.finalizedEvents
      invoked == invokedCallbacks(self.finalizedEventsCallbacks)
      threw == Len(invoked) > 0 /\ invoked[Len(invoked)] = "throws"
  IN [thrown |-> IF threw THEN << "callback threw" >> ELSE Nothing,
      returned |-> IF threw THEN << >> ELSE evs,
      delivered |-> [i \in 1..Len(invoked) |-> self.finalizedEvents],
      self |-> self]

\* _flushFinalizedEvents(): the tracker after the call, what the call
\* threw (what a callback threw), the array it returned and the arrays the
\* callbacks were invoked with.
_flushFinalizedEvents(self) ==
  LET evs == self.finalizedEvents
      invoked == invokedCallbacks(self.finalizedEventsCallbacks)
      threw == Len(invoked) > 0 /\ invoked[Len(invoked)] = "throws"
  IN [thrown |-> IF threw THEN << "callback threw" >> ELSE Nothing,
      returned |-> IF threw THEN << >> ELSE evs,
      delivered |-> [i \in 1..Len(invoked) |-> self.finalizedEvents],
      self |-> IF threw THEN self ELSE [self EXCEPT !.finalizedEvents = << >>]]

\* ---------------------------------------------------------------- actions
Assign(self) ==
  /\ _validProps' = self._validProps
  /\ eventCount' = self.eventCount
  /\ lastEvent' = self.lastEvent
  /\ lastPage' = self.lastPage
  /\ lastComponent' = self.lastComponent
  /\ unfinalizedEvents' = self.unfinalizedEvents
  /\ finalizedEvents' = self.finalizedEvents
  /\ events' = self.events
  /\ finalizedEventsCallbacks' = self.finalizedEventsCallbacks
  /\ objects' = self.objects

\* The last call as its caller sees it: the operation, the event and the
\* config.finalization_mode it was given, what it threw, what it returned
\* and what the callbacks were given.
NoEvent == [keys |-> {}, page |-> Undefined, component |-> Undefined, duration |-> 0]
NoConfig == [keys |-> {}, valid_props |-> Undefined]
NoOutcome ==
  [op |-> "none", event |-> NoEvent, mode |-> Undefined, config |-> NoConfig,
   thrown |-> Nothing, returned |-> << >>, delivered |-> << >>]

\* Mutant: no property of the config is required.
_validateConfig_nothingRequired(config) ==
  Nothing

\* _validateConfig(config): what it throws.
_validateConfig(config) ==
  IF "valid_props" \notin config.keys
  THEN << "Config missing required property ", "valid_props" >>
  ELSE Nothing

\* new ComponentMetrics(config): the fields are initialized, then the config
\* is validated, then this._validProps is assigned.  When _validateConfig
\* throws, the new expression throws and the caller gets no tracker.
constructor(config) ==
  /\ _validProps = IF _validateConfig(config) = Nothing
                   THEN config.valid_props ELSE Undefined
  /\ outcome = [NoOutcome EXCEPT !.op = "constructor", !.config = config,
                                 !.thrown = _validateConfig(config)]
  /\ eventCount = 0
  /\ lastEvent = Null
  /\ lastPage = ""
  /\ lastComponent = ""
  /\ unfinalizedEvents = << >>
  /\ finalizedEvents = << >>
  /\ events = [pages |-> << >>]
  /\ finalizedEventsCallbacks = << >>
  /\ objects = << >>
  /\ clock = 0

\* The caller holds a tracker: the constructor returned.
Constructed == ~(outcome.op = "constructor" /\ outcome.thrown # Nothing)

\* A call metrics.registerEvent(event, config): the caller's event is one
\* of raws, config.finalization_mode one of modes, and each +new Date()
\* read finds the clock advanced by one of ticks; limit bounds the number
\* of events registered.
RegisterEvent(raws, modes, ticks, limit) ==
  \E event \in raws, mode \in modes, d1 \in ticks, d2 \in ticks :
    /\ Constructed
    /\ Len(objects) < limit
    /\ clock + d1 + d2 <= MaxTime
    /\ \E call \in {registerEvent(This, event, [finalization_mode |-> mode],
                                  clock + d1, clock + d1 + d2)} :
         LET reads == IF call.thrown # Nothing THEN 0
                      ELSE IF mode = FINALIZE_IMMEDIATE THEN 2 ELSE 1
         IN /\ reads < 2 => d2 = 0
            /\ reads < 1 => d1 = 0
            /\ Assign(call.self)
            /\ clock' = clock + d1 + d2
            /\ outcome' = [NoOutcome EXCEPT !.op = "registerEvent",
                                            !.event = event, !.mode = mode,
                                            !.thrown = call.thrown]

\* A call metrics.registerFinalizedEventsCallback(callback)
RegisterFinalizedEventsCallback ==
  \E callback \in CallbackKinds :
    /\ Constructed
    /\ Len(finalizedEventsCallbacks) < MaxCallbacks
    /\ finalizedEventsCallbacks' = Append(finalizedEventsCallbacks, callback)
    /\ outcome' = [NoOutcome EXCEPT !.op = "registerFinalizedEventsCallback"]
    /\ UNCHANGED << _validProps, eventCount, lastEvent, lastPage, lastComponent,
                    unfinalizedEvents, finalizedEvents, events, objects, clock >>

\* A call of _flushFinalizedEvents(), direct or from the timer run() starts
Flush ==
  \E call \in {_flushFinalizedEvents(This)} :
     /\ Constructed
     /\ Assign(call.self)
     /\ outcome' = [NoOutcome EXCEPT !.op = "flush", !.thrown = call.thrown,
                                     !.returned = call.returned,
                                     !.delivered = call.delivered]
     /\ UNCHANGED clock

\* ------------------------------------------------------- specifications
\* The event lifecycle: a tracker with valid_props ["user_id"], events of
\* every page, component and mode, and flushes, all within one millisecond.
Init == constructor(Config(<< "user_id" >>))

Register == RegisterEvent(PlainEvents, AcceptedConfigModes, {0}, MaxEvents)

Next == Register \/ Flush

Spec == Init /\ [][Next]_vars

\* Validation: constructions with either valid_props and with none, events of one page and
\* component with and without a further property (colour, duration), every
\* value of config.finalization_mode, and flushes.
ValidationEvents ==
  { e \in RawEvents : /\ e.page = "home" /\ e.component = "card"
                      /\ "duration" \in e.keys => e.duration # 0 }

InitValidation == \E config \in Configs : constructor(config)

RegisterValidated == RegisterEvent(ValidationEvents, ConfigModes, {0}, MaxEvents)

NextValidation == RegisterValidated \/ Flush

SpecValidation == InitValidation /\ [][NextValidation]_vars

\* Timing: a tracker whose valid_props allow duration, events of one
\* component with and without a supplied duration, and a clock that may
\* advance by a millisecond before each read.
TimedEvents == { e \in PlainEvents \cup DurationEvents : e.component = "card" }

InitTiming == constructor(Config(<< "user_id", "duration" >>))

RegisterTimed ==
  RegisterEvent(TimedEvents, AcceptedConfigModes \ {Undefined}, {0, 1}, MaxTimedEvents)

NextTiming == RegisterTimed

SpecTiming == InitTiming /\ [][NextTiming]_vars

\* Delivery: callbacks that return or throw, registered at any time, events
\* of one component, and flushes.
DeliveredEvents == { e \in PlainEvents : e.component = "card" }

RegisterDelivered ==
  RegisterEvent(DeliveredEvents, AcceptedConfigModes \ {Undefined}, {0},
                MaxDeliveredEvents)

NextDelivery == RegisterDelivered \/ RegisterFinalizedEventsCallback \/ Flush

SpecDelivery == Init /\ [][NextDelivery]_vars

\* Delivery by the timer: run() has setInterval call _flushFinalizedEvents
\* every flushInterval, for ever, so a flush that would change the state
\* is not postponed for ever.
SpecDeliveryFair == Init /\ [][NextDelivery]_vars /\ WF_vars(Flush)

\* ------------------------------------------------- vocabulary of the claims
\* The references of the events registered so far, in registration order.
Refs == 1..Len(objects)

\* ref is in the flat open index unf (this.unfinalizedEvents).
InOpenIndex(unf, ref) == \E id \in DOMAIN unf : unf[id] = ref

\* The number of times ref occurs in the open list of (page, component) in ev.
OccurrencesInList(ev, page, component, ref) ==
  IF Has(ev.pages, page) /\ Has(Get(ev.pages, page), component)
  THEN Cardinality({ k \in DOMAIN Get(Get(ev.pages, page), component).unfinalizedEvents :
                       Get(Get(ev.pages, page), component).unfinalizedEvents[k] = ref })
  ELSE 0

\* ref is in some per-(page, component) open list of ev (this.events).
InSomeOpenList(ev, ref) ==
  \E p \in Pages, c \in Components : OccurrencesInList(ev, p, c, ref) > 0

\* The positions of ref in the array of references q.
Positions(q, ref) == { k \in DOMAIN q : q[k] = ref }

\* This step is a registerEvent call that returned: one more event object.
Registered == Len(objects') = Len(objects) + 1
\* The event that call registered, after the call.
NewRef == Len(objects')
NewEvent == objects'[Len(objects')]

\* This step finalized x, with the newly registered event as cause.
FinalizedByNewEvent(x) ==
  /\ ~objects[x]._finalized
  /\ objects'[x]._finalized
  /\ objects'[x].next_page = NewEvent.page
  /\ objects'[x].next_component = NewEvent.component
  /\ ~InOpenIndex(unfinalizedEvents', x)
  /\ ~InSomeOpenList(events', x)
  /\ Positions(finalizedEvents', x) # {}
  /\ Positions(finalizedEvents, x) = {}

\* This step left x as it was: open and not finalized.
StaysOpen(x) ==
  /\ objects'[x] = objects[x]
  /\ ~objects'[x]._finalized
  /\ InOpenIndex(unfinalizedEvents', x)
  /\ OccurrencesInList(events', objects[x].page, objects[x].component, x) = 1
  /\ Positions(finalizedEvents', x) = {}

\* ------------------------------------------------------------------ claims
\* C1: an event X registered with mode next_event (or with no mode) is open
\* until the very next registerEvent call that returns, and that call, for
\* an event of any page, component and mode, finalizes X with next_page and
\* next_component those of the new event.
C1_NextEventFinalizedByNextRegistration ==
  [][ Registered /\ Len(objects) > 0
        /\ objects[Len(objects)]._finalization_mode = FINALIZE_NEXT_EVENT
      => /\ InOpenIndex(unfinalizedEvents, Len(objects))
         /\ ~objects[Len(objects)]._finalized
         /\ FinalizedByNewEvent(Len(objects)) ]_vars

\* C1 witness: a next_event event finalized by an immediate event of another
\* page and component.
C1_Witness ==
  \E x \in Refs :
    /\ x < Len(objects)
    /\ objects[x]._finalization_mode = FINALIZE_NEXT_EVENT
    /\ objects[x]._finalized
    /\ objects[x + 1]._finalization_mode = FINALIZE_IMMEDIATE
    /\ objects[x + 1].page # objects[x].page
    /\ objects[x + 1].component # objects[x].component
    /\ objects[x].next_page = objects[x + 1].page

\* C2: a registerEvent call that returns leaves every open page_change event
\* of the new event's page open, and finalizes every open page_change event
\* of another page with the new event as cause.
C2_PageChangeFinalizedOnOtherPage ==
  [][ Registered =>
        \A x \in Refs :
          InOpenIndex(unfinalizedEvents, x)
            /\ objects[x]._finalization_mode = FINALIZE_PAGE_CHANGE
          => IF NewEvent.page = objects[x].page
             THEN StaysOpen(x)
             ELSE FinalizedByNewEvent(x) ]_vars

\* C2 witness: a page_change event that stayed open over a later event of
\* its page and was finalized by a third event, of another page.
C2_Witness ==
  /\ Len(objects) = 3
  /\ objects[1]._finalization_mode = FINALIZE_PAGE_CHANGE
  /\ objects[2].page = objects[1].page
  /\ objects[2].component # objects[1].component
  /\ objects[3].page # objects[1].page
  /\ objects[1]._finalized
  /\ objects[1].next_page = objects[3].page
  /\ objects[1].next_component = objects[3].component

\* C3: a registerEvent call that returns leaves every open
\* next_event_same_component event open when the new event has its page and
\* another component, and finalizes it with the new event as cause when the
\* new event has its component (on any page) or another page.
C3_SameComponentFinalization ==
  [][ Registered =>
        \A x \in Refs :
          InOpenIndex(unfinalizedEvents, x)
            /\ objects[x]._finalization_mode = FINALIZE_NEXT_EVENT_SAME_COMPONENT
          => IF NewEvent.page = objects[x].page
                /\ NewEvent.component # objects[x].component
             THEN StaysOpen(x)
             ELSE FinalizedByNewEvent(x) ]_vars

\* C3 witness: a next_event_same_component event that stayed open over an
\* event of its page and another component and was finalized by a third
\* event of its page and component.
C3_Witness ==
  /\ Len(objects) = 3
  /\ objects[1]._finalization_mode = FINALIZE_NEXT_EVENT_SAME_COMPONENT
  /\ objects[2].page = objects[1].page
  /\ objects[2].component # objects[1].component
  /\ objects[3].page = objects[1].page
  /\ objects[3].component = objects[1].component
  /\ objects[1]._finalized
  /\ objects[1].next_component = objects[3].component
  /\ ~objects[2]._finalized

\* C4: an immediate event is finalized by its own registerEvent call: that
\* call appends it to the finalized queue before anything else it appends,
\* and in every state it is in neither the flat open index nor any
\* per-(page, component) open list.
C4_ImmediateNeverOpen ==
  [][ /\ \A x \in 1..Len(objects') :
           objects'[x]._finalization_mode = FINALIZE_IMMEDIATE
           => /\ objects'[x]._finalized
              /\ ~InOpenIndex(unfinalizedEvents', x)
              /\ objects'[x]._event_id \notin DOMAIN unfinalizedEvents'
              /\ ~InSomeOpenList(events', x)
      /\ Registered /\ NewEvent._finalization_mode = FINALIZE_IMMEDIATE
         => /\ Len(finalizedEvents') > Len(finalizedEvents)
            /\ finalizedEvents'[Len(finalizedEvents) + 1] = NewRef
            /\ Positions(finalizedEvents', NewRef) = {Len(finalizedEvents) + 1}
            /\ \A k \in DOMAIN finalizedEvents' :
                 objects'[finalizedEvents'[k]]._event_id <= NewEvent._event_id ]_vars

\* C4 witness: an immediate event in the finalized queue ahead of an older
\* event its registration finalized, with a later event open on its page
\* and component.
C4_Witness ==
  \E k \in DOMAIN finalizedEvents :
    /\ k < Len(finalizedEvents)
    /\ objects[finalizedEvents[k]]._finalization_mode = FINALIZE_IMMEDIATE
    /\ finalizedEvents[k + 1] < finalizedEvents[k]
    /\ \E y \in Refs :
         /\ y > finalizedEvents[k]
         /\ InOpenIndex(unfinalizedEvents, y)
         /\ objects[y].page = objects[finalizedEvents[k]].page
         /\ objects[y].component = objects[finalizedEvents[k]].component

\* C5: the event_id values of the registered events are unique, increase by
\* one from each registered event to the next, and a rejected registration
\* or a flush consumes none: the counter is always the id the next
\* registered event gets.
C5_EventIdsIncreaseWithoutGaps ==
  /\ \A k \in Refs :
       objects[k]._event_id = IF k = 1 THEN 0 ELSE objects[k - 1]._event_id + 1
  /\ \A j, k \in Refs : j < k => objects[j]._event_id < objects[k]._event_id
  /\ eventCount = IF Len(objects) = 0 THEN 0
                  ELSE objects[Len(objects)]._event_id + 1

\* C5 witness: a rejected registration after two registered events, one of
\* them already flushed.
C5_Witness ==
  /\ outcome.op = "registerEvent"
  /\ outcome.thrown # Nothing
  /\ Len(objects) = 2
  /\ objects[1]._finalized
  /\ finalizedEvents = << >>

\* The property names the caller's event may carry: the built-in ones and
\* valid_props.
AllowedProps ==
  {"represented_object_type", "represented_object_id", "interaction_meaning",
   "interaction_gesture", "interaction_duration", "page", "component"}
  \cup { _validProps[i] : i \in DOMAIN _validProps }

\* The outcome reports a registerEvent call whose event has a property
\* that is not allowed, or whose resolved mode is none of the four.
InvalidRegistration(o) ==
  /\ o.op = "registerEvent"
  /\ \/ \E key \in o.event.keys : key \notin AllowedProps
     \/ (IF o.mode = Undefined THEN FINALIZE_NEXT_EVENT ELSE o.mode)
          \notin {FINALIZE_IMMEDIATE, FINALIZE_NEXT_EVENT, FINALIZE_PAGE_CHANGE,
                  FINALIZE_NEXT_EVENT_SAME_COMPONENT}

IsOpen(x) ==
  /\ objects[x]._event_id \in DOMAIN unfinalizedEvents
  /\ unfinalizedEvents[objects[x]._event_id] = x
  /\ ~objects[x]._finalized
  /\ "_finalized" \notin objects[x].keys
  /\ Positions(finalizedEvents, x) = {}

\* x is finalized: not in the flat open index, with next_page,
\* next_component, duration and the finalized flag set.
IsFinalized(x) ==
  /\ ~InOpenIndex(unfinalizedEvents, x)
  /\ objects[x]._event_id \notin DOMAIN unfinalizedEvents
  /\ objects[x]._finalized
  /\ {"next_page", "next_component", "duration", "_finalized"} \subseteq objects[x].keys
  /\ objects[x].next_page # Undefined
  /\ objects[x].next_component # Undefined

\* The events this step finalized: the finalized flag was not set before.
NewlyFinalized ==
  { x \in 1..Len(objects') :
      objects'[x]._finalized /\ (x <= Len(objects) => ~objects[x]._finalized) }

\* C7: every registered event is either open or finalized, never both and
\* never neither; the finalized flag is never taken back; and the finalized
\* queue changes only by a flush emptying it or by a call appending, once
\* each, exactly the events that call finalized, so that no event is
\* appended twice and a finalized event stays in the queue, once, until a
\* flush.
C7_OpenOrFinalizedOnceInQueue ==
  [][ /\ \A x \in 1..Len(objects') : (IsOpen(x))' # (IsFinalized(x))'
      /\ \A x \in Refs : objects[x]._finalized => objects'[x]._finalized
      /\ \/ outcome'.op = "flush" /\ finalizedEvents' = << >>
         \/ /\ Len(finalizedEvents') >= Len(finalizedEvents)
            /\ SubSeq(finalizedEvents', 1, Len(finalizedEvents)) = finalizedEvents
            /\ \A x \in 1..Len(objects') :
                 Cardinality({ k \in DOMAIN finalizedEvents' :
                                 k > Len(finalizedEvents) /\ finalizedEvents'[k] = x })
                   = IF x \in NewlyFinalized THEN 1 ELSE 0 ]_vars

\* C7 witness: three events, one finalized and flushed, one finalized and
\* in the queue, one open.
C7_Witness ==
  /\ Len(objects) = 3
  /\ objects[1]._finalized /\ Positions(finalizedEvents, 1) = {}
  /\ objects[2]._finalized /\ finalizedEvents = << 2 >>
  /\ InOpenIndex(unfinalizedEvents, 3)
  /\ objects[1]._finalization_mode = FINALIZE_NEXT_EVENT_SAME_COMPONENT
  /\ objects[2]._finalization_mode = FINALIZE_PAGE_CHANGE

\* C8: an event finalized without a duration of its own gets as duration
\* the time of the event that caused its finalization less its own time
\* (for an immediate event, the time read for the empty cause less its own
\* time), and that is not negative.
C8_DurationIsCauseTimeLessOwnTime ==
  [][ Registered =>
        \A x \in NewlyFinalized :
          (IF x = NewRef THEN "duration" \notin outcome'.event.keys
                         ELSE "duration" \notin objects[x].keys)
          => /\ objects'[x].duration =
                  (IF x = NewRef THEN clock' ELSE NewEvent.time) - objects'[x].time
             /\ objects'[x].duration >= 0 ]_vars

\* C8 witness: an immediate event whose empty cause was read a millisecond
\* after its own time, and the event of another mode it finalized, a
\* millisecond old when the immediate event was registered.
C8_Witness ==
  /\ Len(objects) = 2
  /\ objects[2]._finalization_mode = FINALIZE_IMMEDIATE
  /\ objects[1]._finalization_mode = FINALIZE_PAGE_CHANGE
  /\ objects[1].time = 0
  /\ objects[2].time = 1
  /\ clock = 2
  /\ objects[2].duration = 1
  /\ objects[1]._finalized
  /\ objects[1].duration = 1

\* C9: a flush returns the whole finalized queue, invokes every registered
\* callback with it and leaves the queue empty, and a flush right after a
\* flush returns an empty array.
C9_FlushDrainsQueue ==
  [][ outcome'.op = "flush"
      => /\ outcome'.thrown = Nothing
         /\ outcome'.returned = finalizedEvents
         /\ outcome'.delivered =
              [i \in 1..Len(finalizedEventsCallbacks) |-> finalizedEvents]
         /\ finalizedEvents' = << >>
         /\ outcome.op = "flush" => outcome'.returned = << >> ]_vars

\* C10: in a flush in which a callback throws, every callback registered
\* after it is still invoked with the queue, and the queue is emptied, so
\* that no later flush delivers its events again.
C10_ThrowingCallbackIsolated ==
  [][ outcome'.op = "flush"
      => \A i \in 1..Len(finalizedEventsCallbacks) :
           finalizedEventsCallbacks[i] = "throws"
           => /\ \A j \in (i + 1)..Len(finalizedEventsCallbacks) :
                   /\ j <= Len(outcome'.delivered)
                   /\ outcome'.delivered[j] = finalizedEvents
              /\ finalizedEvents' = << >> ]_vars

\* The most recently registered event of (page, component), Null when none.
LastRegistered(page, component) ==
  LET of == { x \in Refs : objects[x].page = page /\ objects[x].component = component }
  IN IF of = {} THEN Null ELSE CHOOSE x \in of : \A y \in of : y <= x

\* C11: between calls, the global lastEvent references the most recently
\* registered event, and the lastEvent of every (page, component) that has
\* been seen references the most recently registered event of that page and
\* component, be it open, finalized or flushed, immediate or not; a pair
\* has a slot exactly when an event of it was registered.
C11_LastEventPointers ==
  /\ lastEvent = IF Len(objects) = 0 THEN Null ELSE Len(objects)
  /\ \A p \in Pages, c \in Components :
       IF LastRegistered(p, c) = Null
       THEN ~HasSlot(This, p, c)
       ELSE /\ HasSlot(This, p, c)
            /\ Slot(This, p, c).lastEvent = LastRegistered(p, c)

\* C11 witness: the lastEvent of a pair references an immediate event that
\* was flushed, while the global lastEvent is a later event of another
\* component.
C11_Witness ==
  /\ Len(objects) = 2
  /\ objects[1]._finalization_mode = FINALIZE_IMMEDIATE
  /\ objects[2].page = objects[1].page
  /\ objects[2].component # objects[1].component
  /\ finalizedEvents = << >>
  /\ outcome.op = "flush"
  /\ lastEvent = 2
  /\ Slot(This, objects[1].page, objects[1].component).lastEvent = 1

\* The open list of (page, component), empty when the pair has no slot.
OpenList(page, component) ==
  IF HasSlot(This, page, component)
  THEN Slot(This, page, component).unfinalizedEvents
  ELSE << >>

\* C12: between calls, the open list of every (page, component) holds
\* exactly the registered events of that page and component that are not
\* finalized, in ascending event_id order; no event is in two open lists;
\* and the events of the open lists are those of the flat open index.
C12_OpenListsMatchOpenIndex ==
  /\ \A p \in Pages, c \in Components :
       LET list == OpenList(p, c)
       IN /\ { list[k] : k \in DOMAIN list }
               = { x \in Refs : /\ ~objects[x]._finalized
                                /\ objects[x].page = p
                                /\ objects[x].component = c }
          /\ \A k \in DOMAIN list :
               /\ objects[list[k]].page = p
               /\ objects[list[k]].component = c
               /\ k > 1 => objects[list[k - 1]]._event_id < objects[list[k]]._event_id
               /\ objects[list[k]]._event_id \in DOMAIN unfinalizedEvents
               /\ unfinalizedEvents[objects[list[k]]._event_id] = list[k]
  /\ \A id \in DOMAIN unfinalizedEvents :
       LET x == unfinalizedEvents[id]
           list == OpenList(objects[x].page, objects[x].component)
       IN /\ objects[x]._event_id = id
          /\ \E k \in DOMAIN list : list[k] = x

\* C12 witness: an open list that lost its middle event and keeps the
\* first and the third in order.
C12_Witness ==
  /\ Len(objects) = 3
  /\ objects[2]._finalized
  /\ OpenList(objects[1].page, objects[1].component) = << 1, 3 >>
  /\ objects[2].page = objects[1].page
  /\ objects[2].component = objects[1].component

\* C13: every registered event but the first has as previous_page and
\* previous_component the page and component of the event registered just
\* before it, whose event_id is one less and is its lastEventId, whatever
\* that event's mode and state; the first has none of the three.
C13_PreviousIsPredecessor ==
  \A x \in Refs :
    IF x = 1
    THEN /\ objects[x].keys \cap {"previous_page", "previous_component", "lastEventId"} = {}
         /\ objects[x].previous_page = Undefined
         /\ objects[x].previous_component = Undefined
    ELSE /\ {"previous_page", "previous_component", "lastEventId"} \subseteq objects[x].keys
         /\ objects[x].previous_page = objects[x - 1].page
         /\ objects[x].previous_component = objects[x - 1].component
         /\ objects[x].lastEventId = objects[x - 1]._event_id
         /\ objects[x - 1]._event_id = objects[x]._event_id - 1

\* C13 witness: an event whose predecessor is an immediate event of another
\* page and component, flushed before the event was registered.
C13_Witness ==
  /\ Len(objects) = 2
  /\ objects[1]._finalization_mode = FINALIZE_IMMEDIATE
  /\ objects[2].page # objects[1].page
  /\ objects[2].component # objects[1].component
  /\ objects[2].previous_page = objects[1].page
  /\ objects[2].lastEventId = 0
  /\ finalizedEvents = << >>

\* The outcome reports a registerEvent call whose event has only built-in
\* properties and valid_props, and whose resolved mode is one of the four.
ValidRegistration(o) ==
  /\ o.op = "registerEvent"
  /\ o.event.keys \subseteq AllowedProps
  /\ (IF o.mode = Undefined THEN FINALIZE_NEXT_EVENT ELSE o.mode)
       \in {FINALIZE_IMMEDIATE, FINALIZE_NEXT_EVENT, FINALIZE_PAGE_CHANGE,
            FINALIZE_NEXT_EVENT_SAME_COMPONENT}

\* C14: the construction throws when the config has no valid_props; when
\* it has, the construction returns a tracker whose valid_props are those
\* of the config from then on, and every registerEvent call whose event
\* has only built-in properties and those names, with a mode of the four,
\* returns.
C14_ConstructionRequiresValidProps ==
  /\ [](outcome.op = "constructor"
        => IF "valid_props" \in outcome.config.keys
           THEN /\ outcome.thrown = Nothing
                /\ _validProps = outcome.config.valid_props
           ELSE outcome.thrown # Nothing)
  /\ [][ /\ _validProps' = _validProps
         /\ ValidRegistration(outcome')
            => outcome'.thrown = Nothing /\ Registered ]_vars

\* C14 witness: a construction that threw for the missing valid_props.
C14_Witness ==
  /\ outcome.op = "constructor"
  /\ "valid_props" \notin outcome.config.keys
  /\ outcome.thrown = << "Config missing required property ", "valid_props" >>

\* The sweep of a registration of an event of page and component reaches x:
\* x is a page_change or next_event_same_component event of another page,
\* a next_event_same_component event of that page and component, or the
\* last registered event with mode next_event.
SweepReaches(x, page, component) ==
  \/ /\ objects[x]._finalization_mode
          \in {FINALIZE_PAGE_CHANGE, FINALIZE_NEXT_EVENT_SAME_COMPONENT}
     /\ objects[x].page # page
  \/ /\ objects[x]._finalization_mode = FINALIZE_NEXT_EVENT_SAME_COMPONENT
     /\ objects[x].page = page
     /\ objects[x].component = component
  \/ /\ x = Len(objects)
     /\ objects[x]._finalization_mode = FINALIZE_NEXT_EVENT

\* C15: a registerEvent call for an immediate event E, itself finalized by
\* the call, finalizes with E as cause every open event the sweep reaches
\* (page_change and next_event_same_component events of other pages,
\* next_event_same_component events of E's page and component, the last
\* event if its mode is next_event) and leaves every other open event open.
C15_ImmediateEventSweeps ==
  [][ Registered /\ NewEvent._finalization_mode = FINALIZE_IMMEDIATE
      => /\ NewEvent._finalized
         /\ NewEvent.next_page = ""
         /\ \A x \in Refs :
              InOpenIndex(unfinalizedEvents, x)
              => IF SweepReaches(x, NewEvent.page, NewEvent.component)
                 THEN FinalizedByNewEvent(x)
                 ELSE StaysOpen(x) ]_vars

\* C15 witness: an immediate event whose registration finalized a
\* page_change event of another page and the last event, of mode
\* next_event, after itself.
C15_Witness ==
  /\ Len(objects) = 3
  /\ objects[1]._finalization_mode = FINALIZE_PAGE_CHANGE
  /\ objects[2]._finalization_mode = FINALIZE_NEXT_EVENT
  /\ objects[3]._finalization_mode = FINALIZE_IMMEDIATE
  /\ objects[2].page = objects[1].page
  /\ objects[3].page # objects[1].page
  /\ finalizedEvents = << 3, 1, 2 >>
  /\ objects[1].next_page = objects[3].page
  /\ objects[2].next_component = objects[3].component

\* C16: once an event is finalized, no registerEvent call and no flush
\* changes its next_page, next_component, duration or finalized flag, puts
\* it back in the flat open index or an open list, or appends it to the
\* finalized queue again.
C16_FinalizationIsTerminal ==
  [][ \A x \in Refs :
        objects[x]._finalized
        => /\ objects'[x]._finalized
           /\ objects'[x].next_page = objects[x].next_page
           /\ objects'[x].next_component = objects[x].next_component
           /\ objects'[x].duration = objects[x].duration
           /\ objects'[x] = objects[x]
           /\ ~InOpenIndex(unfinalizedEvents', x)
           /\ objects[x]._event_id \notin DOMAIN unfinalizedEvents'
           /\ ~InSomeOpenList(events', x)
           /\ Positions(finalizedEvents', x) \subseteq Positions(finalizedEvents, x) ]_vars

\* C16 witness: an immediate event, finalized with the empty cause and
\* flushed, after two later registrations of its page and component while
\* it was the last event of both.
C16_Witness ==
  /\ Len(objects) = 3
  /\ objects[1]._finalization_mode = FINALIZE_IMMEDIATE
  /\ objects[1]._finalized
  /\ objects[1].next_page = ""
  /\ objects[1].next_component = ""
  /\ Positions(finalizedEvents, 1) = {}
  /\ \A x \in {2, 3} : /\ objects[x].page = objects[1].page
                       /\ objects[x].component = objects[1].component
  /\ objects[2]._finalization_mode = FINALIZE_NEXT_EVENT_SAME_COMPONENT
  /\ objects[2]._finalized

\* C17: an event that carries a duration of its own when it is finalized
\* (supplied by the caller, duration being in valid_props) keeps that
\* value, whichever it is.
C17_SuppliedDurationKept ==
  [][ Registered =>
        \A x \in NewlyFinalized :
          (IF x = NewRef THEN "duration" \in outcome'.event.keys
                         ELSE "duration" \in objects[x].keys)
          => objects'[x].duration =
               (IF x = NewRef THEN outcome'.event.duration
                              ELSE objects[x].duration) ]_vars

\* The elements of the array q.
Elements(q) == { q[k] : k \in DOMAIN q }

\* x was finalized and is not in the finalized queue: a flush drained it.
Drained(x) == objects[x]._finalized /\ Positions(finalizedEvents, x) = {}

\* C18 as stated: after a flush that returned an event, neither the open
\* indices, nor the global lastEvent, nor the lastEvent of any (page,
\* component), nor the finalized queue references the event.
C18_DrainedEventUnreferenced ==
  [][ outcome'.op = "flush"
      => \A x \in Elements(outcome'.returned) :
           /\ ~InOpenIndex(unfinalizedEvents', x)
           /\ ~InSomeOpenList(events', x)
           /\ Positions(finalizedEvents', x) = {}
           /\ lastEvent' # x
           /\ \A p \in Pages, c \in Components :
                (HasSlot(This, p, c))' => (Slot(This, p, c).lastEvent)' # x ]_vars

\* C18 amended: a flush that returns an event leaves it drained; a drained
\* event stays drained and is in neither the flat open index nor any open
\* list; the global lastEvent references it only while it is the most
\* recently registered event, and the lastEvent of a (page, component)
\* only while it is the most recently registered event of that pair.
C18_DrainedEventOnlyLastEventPointers ==
  [][ \A x \in 1..Len(objects') :
        /\ outcome'.op = "flush" /\ x \in Elements(outcome'.returned)
           => (Drained(x))'
        /\ x \in Refs /\ Drained(x) => (Drained(x))'
        /\ (Drained(x))'
           => /\ ~InOpenIndex(unfinalizedEvents', x)
              /\ ~InSomeOpenList(events', x)
              /\ lastEvent' = x => x = Len(objects')
              /\ \A p \in Pages, c \in Components :
                   (HasSlot(This, p, c))' /\ (Slot(This, p, c).lastEvent)' = x
                   => x = (LastRegistered(p, c))' ]_vars

\* C18 witness: a flush has returned the only event, delivered it to a
\* callback and emptied the queue; the event is still the global lastEvent
\* and the lastEvent of its page and component.
C18_Witness ==
  /\ outcome.op = "flush"
  /\ outcome.returned = << 1 >>
  /\ outcome.delivered = << << 1 >> >>
  /\ finalizedEvents = << >>
  /\ Len(objects) = 1
  /\ lastEvent = 1
  /\ Slot(This, objects[1].page, objects[1].component).lastEvent = 1

\* C19: a flush returns only events of the finalized queue and takes them
\* out of it, an event enters the queue only in the call that finalizes
\* it, so no event is returned by two flushes; and with flushes invoked
\* again and again, every event in the finalized queue is eventually
\* returned by a flush.
C19_FinalizedEventsReturnedOnce ==
  /\ [][ /\ outcome'.op = "flush"
            => \A x \in Elements(outcome'.returned) :
                 /\ Positions(finalizedEvents, x) # {}
                 /\ Positions(finalizedEvents', x) = {}
         /\ \A x \in 1..Len(objects') :
              Positions(finalizedEvents', x) # {} /\ Positions(finalizedEvents, x) = {}
              => x \in NewlyFinalized ]_vars
  /\ \A x \in 1..MaxDeliveredEvents :
       (Positions(finalizedEvents, x) # {})
         ~> (outcome.op = "flush" /\ x \in Elements(outcome.returned))

\* The cause a finalized event x records is one its mode allows.
CauseAllowed(x) ==
  /\ objects[x]._finalization_mode = FINALIZE_PAGE_CHANGE
     => objects[x].next_page # objects[x].page
  /\ objects[x]._finalization_mode = FINALIZE_NEXT_EVENT_SAME_COMPONENT
     => \/ objects[x].next_page # objects[x].page
        \/ objects[x].next_component = objects[x].component
  /\ objects[x]._finalization_mode = FINALIZE_NEXT_EVENT
     => /\ x < Len(objects)
        /\ objects[x + 1]._event_id = objects[x]._event_id + 1
        /\ objects[x].next_page = objects[x + 1].page
        /\ objects[x].next_component = objects[x + 1].component
  /\ objects[x]._finalization_mode = FINALIZE_IMMEDIATE
     => objects[x].next_page = "" /\ objects[x].next_component = ""

\* C20: every finalized event records a cause its mode allows (page_change:
\* another page; next_event_same_component: another page or its component;
\* next_event: page and component of the event with the next event_id;
\* immediate: empty page and component), and a call finalizes, besides its
\* own event when immediate, only events that are not immediate, with its
\* own event, registered after them, as cause.
C20_CauseAllowedByMode ==
  [][ /\ \A x \in 1..Len(objects') : objects'[x]._finalized => (CauseAllowed(x))'
      /\ \A x \in NewlyFinalized :
           IF x = NewRef
           THEN objects'[x]._finalization_mode = FINALIZE_IMMEDIATE
           ELSE /\ objects'[x]._finalization_mode # FINALIZE_IMMEDIATE
                /\ Registered
                /\ FinalizedByNewEvent(x)
                /\ NewEvent._event_id > objects[x]._event_id ]_vars

\* C20 witness: three finalized events in the queue: a
\* next_event_same_component event finalized by the next event of its page
\* and component, that event, of mode page_change, finalized by an
\* immediate event of another page, and the immediate event.
C20_Witness ==
  /\ Len(objects) = 3
  /\ objects[1]._finalization_mode = FINALIZE_NEXT_EVENT_SAME_COMPONENT
  /\ objects[2]._finalization_mode = FINALIZE_PAGE_CHANGE
  /\ objects[3]._finalization_mode = FINALIZE_IMMEDIATE
  /\ objects[2].page = objects[1].page
  /\ objects[2].component = objects[1].component
  /\ objects[3].page # objects[2].page
  /\ finalizedEvents = << 1, 3, 2 >>
  /\ objects[1].next_page = objects[1].page
  /\ objects[2].next_page = objects[3].page
  /\ objects[3].next_page = ""

\* The open events: those of the flat open index.
OpenRefs == { unfinalizedEvents[id] : id \in DOMAIN unfinalizedEvents }

\* C21: between calls, at most one event of mode next_event is open, and
\* an open event of mode next_event is the most recently registered event,
\* the one the global lastEvent references.
C21_OneOpenNextEvent ==
  /\ \A x, y \in OpenRefs :
       /\ objects[x]._finalization_mode = FINALIZE_NEXT_EVENT
       /\ objects[y]._finalization_mode = FINALIZE_NEXT_EVENT
       => x = y
  /\ \A x \in OpenRefs :
       objects[x]._finalization_mode = FINALIZE_NEXT_EVENT
       => x = lastEvent /\ x = Len(objects)
  /\ \A x \in Refs :
       objects[x]._finalization_mode = FINALIZE_NEXT_EVENT /\ ~objects[x]._finalized
       => x = lastEvent

\* C21 witness: the last event, of mode next_event, is open after an
\* earlier next_event event was finalized, beside an open page_change event.
C21_Witness ==
  /\ Len(objects) = 3
  /\ objects[1]._finalization_mode = FINALIZE_PAGE_CHANGE
  /\ objects[2]._finalization_mode = FINALIZE_NEXT_EVENT
  /\ objects[3]._finalization_mode = FINALIZE_NEXT_EVENT
  /\ OpenRefs = {1, 3}
  /\ objects[2]._finalized
  /\ lastEvent = 3

\* C22: between calls, every open event has the page of the most recently
\* registered event: a registerEvent call that returns leaves no event of
\* any mode open on another page than its event's.
C22_OpenEventsOnLastPage ==
  /\ \A x \in OpenRefs :
       /\ objects[x].page = objects[Len(objects)].page
       /\ objects[x].page = lastPage
  /\ \A x \in Refs :
       ~objects[x]._finalized => objects[x].page = objects[Len(objects)].page

\* C22 witness: a next_event_same_component event of one page was
\* finalized by a page_change event of another page, which is open with a
\* later event of its page.
C22_Witness ==
  /\ Len(objects) = 3
  /\ objects[1]._finalization_mode = FINALIZE_NEXT_EVENT_SAME_COMPONENT
  /\ objects[2]._finalization_mode = FINALIZE_PAGE_CHANGE
  /\ objects[2].page # objects[1].page
  /\ objects[3].page = objects[2].page
  /\ objects[1]._finalized
  /\ objects[1].next_page = objects[2].page
  /\ OpenRefs = {2, 3}

====
